---- MODULE Spec2Model ----
(***************************************************************************)
(* The HATEOAS bank account server (hateoas-bank-api.go) and the polling   *)
(* discovery engine that derives a versioned capability catalog from the   *)
(* links the server advertises.                                            *)
(*                                                                         *)
(* Balances and amounts are float64 in the source.  They are modelled as   *)
(* integers counting hundredths (1250.75 is 125075): every value the       *)
(* model uses is a multiple of 0.25 far below 2^53, on which float64       *)
(* addition, subtraction and comparison with 0 are exact.                  *)
(*                                                                         *)
(* A URL path is modelled by strings.Split(path, "/"): "/accounts/acc-123" *)
(* is <<"", "accounts", "acc-123">>.  A string built by fmt.Sprintf is the *)
(* sequence of its pieces.                                                 *)
(***************************************************************************)
EXTENDS Integers, Sequences, FiniteSets, TLC

VARIABLES
    accounts,   \* the global map id -> Account of the server
    updates,    \* number of requests so far that changed the store (bounded)
    last,       \* the step taken last: its kind, the request and the response
    engine,     \* state of the discovery engine
    fetched,    \* the poll in flight: the representation fetched
    catalog,    \* the currently published catalog: capabilities and version
    note,       \* the notification published last
    prev,       \* the representation the previous successful poll fetched
    resource,   \* the id of the resource the engine polls
    stage,      \* events of Scenario matched so far; -1 once the run has left it
    handlers,   \* the handler goroutines of the concurrent specification
    applied,    \* per account, the sum of the updates the handlers accepted
    bypassed    \* some withdraw was subtracted from a stored balance <= 0

vars == <<accounts, updates, last, engine, fetched, catalog, note, prev, resource,
          stage, handlers, applied, bypassed>>

engineVars == <<engine, fetched, catalog, note, prev, resource>>
concVars == <<handlers, applied, bypassed>>
seqVars == <<updates, last, stage>>

----------------------------------------------------------------------------
(* Bounds *)

\* Balance updates (accepted deposits and withdraws) in one behaviour.
MaxUpdates == 2

\* Handler goroutines in the concurrent specification.
NumHandlers == 2

----------------------------------------------------------------------------
(* Requests *)

KnownIds == {"acc-123", "acc-456"}

UnknownId == "acc-999"

Ids == KnownIds \cup {UnknownId}

Hosts == {"localhost:9001", "bank.test"}

\* Amounts carried by well-formed bodies, in hundredths.
Amounts == {-10000, 0, 10000, 125075}

\* A request body, as json.Decoder reads it: the first JSON value of the text
\* (none that can be read into a Transaction: an empty body, a syntax error,
\* an amount that is no number; or an object with amount a), and whether more
\* text follows that value.
Body(value, amount, trailing) ==
    [value |-> value, amount |-> amount, trailing |-> trailing]

\* The empty body.
MalformedBody == Body("invalid", 0, FALSE)

\* {"amount": a}
Object(a) == Body("object", a, FALSE)

\* {"amount": a} followed by text that is no JSON, as in {"amount": 100}}
Trailing(a) == Body("object", a, TRUE)

Bodies ==
    {MalformedBody} \cup {Object(a) : a \in Amounts} \cup {Trailing(10000)}

\* The paths under the "/accounts/" pattern, split at "/".
Paths ==
    {<<"", "accounts", id>> : id \in Ids}
    \cup {<<"", "accounts", id, "deposit">> : id \in Ids}
    \cup {<<"", "accounts", id, "withdraw">> : id \in Ids}
    \cup {<<"", "accounts", "acc-123", "history">>, <<"", "accounts", "deposit">>}

\* A GET carries no body: the empty body is one json.Decode rejects.
Requests ==
    [method : {"GET"}, path : Paths, host : Hosts, body : {MalformedBody}]
    \cup [method : {"POST"}, path : Paths, host : Hosts, body : Bodies]

NoReq == [method |-> "", path |-> <<>>, host |-> "", body |-> MalformedBody]

----------------------------------------------------------------------------
(* The server *)

StatusOK == 200
StatusBadRequest == 400
StatusForbidden == 403
StatusNotFound == 404
StatusMethodNotAllowed == 405

\* A nil map.
NilLinks == [rel \in {} |-> 0]

\* The zero Account.
NoAccount ==
    [AccountID |-> "", AccountHolder |-> "", Balance |-> 0, Currency |-> "",
     Links |-> NilLinks]

\* var accounts
InitialAccounts ==
    [id \in KnownIds |->
        IF id = "acc-123"
        THEN [AccountID |-> "acc-123", AccountHolder |-> "John Doe",
              Balance |-> 125075, Currency |-> "USD", Links |-> NilLinks]
        ELSE [AccountID |-> "acc-456", AccountHolder |-> "Jane Smith",
              Balance |-> -15025, Currency |-> "USD", Links |-> NilLinks]]

\* fmt.Sprintf("http://%s", r.Host)
BaseURL(host) == <<"http://", host>>

Link(href, method, rel) == [Href |-> href, Method |-> method, Rel |-> rel]

\* A withdraw link at a balance of zero too.
WithdrawLinkedAtZero(account) == account.Balance >= 0

\* if account.Balance > 0: the withdraw link is added.
WithdrawLinked(account) == account.Balance > 0

\* addHATEOASLinks: the account with its Links replaced by a fresh map.
addHATEOASLinks(account, baseURL) ==
    LET rels == {"self", "deposit"}
                \cup (IF WithdrawLinked(account) THEN {"withdraw"} ELSE {})
        links == [rel \in rels |->
                    CASE rel = "self" ->
                           Link(baseURL \o <<"accounts", account.AccountID>>, "GET", "self")
                      [] rel = "deposit" ->
                           Link(baseURL \o <<"accounts", account.AccountID, "deposit">>,
                                "POST", "deposit")
                      [] rel = "withdraw" ->
                           Link(baseURL \o <<"accounts", account.AccountID, "withdraw">>,
                                "POST", "withdraw")]
    IN  [account EXCEPT !.Links = links]

\* Response bodies.
EmptyBody == [kind |-> "empty"]
ErrorBody(msg) == [kind |-> "error", error |-> msg]
AccountBody(account) == [kind |-> "account", account |-> account]

Response(status, body) == [status |-> status, body |-> body]

NoResp == Response(0, EmptyBody)

\* What a handler leaves behind: the store and the response written.
Outcome(store, resp) == [accounts |-> store, resp |-> resp]

\* json.NewDecoder(r.Body).Decode(&transaction): Decode reads the first JSON
\* value of the body and does not look at what follows an object.
Decode(body) ==
    IF body.value = "object" THEN [err |-> FALSE, Amount |-> body.amount]
                             ELSE [err |-> TRUE, Amount |-> 0]

\* if transaction.Amount <= 0
NotPositive(transaction) == transaction.Amount <= 0

\* A balance of zero passes the check.
OverdrawnStrict(account) == account.Balance < 0

\* if account.Balance <= 0: withdraw is refused.
Overdrawn(account) == account.Balance <= 0

\* account.Balance += transaction.Amount
Credit(account, amount) == [account EXCEPT !.Balance = @ + amount]

\* A withdraw that takes no more than the balance holds.
DebitCapped(account, amount) ==
    [account EXCEPT !.Balance = IF amount > @ THEN 0 ELSE @ - amount]

\* account.Balance -= transaction.Amount
Debit(account, amount) == [account EXCEPT !.Balance = @ - amount]

\* strings.TrimPrefix(r.URL.Path, "/accounts/"), as the segments left.
TrimPrefix(path) == SubSeq(path, 3, Len(path))

\* accounts[accountID] finds an entry: the id is one segment naming a key.
Exists(store, key) == Len(key) = 1 /\ key[1] \in DOMAIN store

\* The links attached to the stored account itself, not to a copy.
getAccountInPlace(store, r) ==
    IF r.method # "GET" THEN Outcome(store, Response(StatusMethodNotAllowed, EmptyBody))
    ELSE LET accountID == TrimPrefix(r.path) IN
         IF ~Exists(store, accountID)
         THEN Outcome(store, Response(StatusNotFound, EmptyBody))
         ELSE LET id == accountID[1]
                  updated == [store EXCEPT ![id] = addHATEOASLinks(@, BaseURL(r.host))]
              IN  Outcome(updated, Response(StatusOK, AccountBody(updated[id])))

getAccount(store, r) ==
    IF r.method # "GET" THEN Outcome(store, Response(StatusMethodNotAllowed, EmptyBody))
    ELSE LET accountID == TrimPrefix(r.path) IN
         IF ~Exists(store, accountID)
         THEN Outcome(store, Response(StatusNotFound, EmptyBody))
         ELSE LET accountCopy == addHATEOASLinks(store[accountID[1]], BaseURL(r.host))
              IN  Outcome(store, Response(StatusOK, AccountBody(accountCopy)))

deposit(store, r) ==
    IF r.method # "POST" THEN Outcome(store, Response(StatusMethodNotAllowed, EmptyBody))
    ELSE IF Len(r.path) < 3 THEN Outcome(store, Response(StatusBadRequest, EmptyBody))
    ELSE LET accountID == <<r.path[3]>>
             transaction == Decode(r.body)
         IN
         IF ~Exists(store, accountID)
         THEN Outcome(store, Response(StatusNotFound, EmptyBody))
         ELSE IF transaction.err
         THEN Outcome(store, Response(StatusBadRequest, EmptyBody))
         ELSE IF NotPositive(transaction)
         THEN Outcome(store, Response(StatusBadRequest, ErrorBody("Amount must be positive")))
         ELSE LET id == accountID[1]
                  updated == [store EXCEPT ![id] = Credit(@, transaction.Amount)]
                  accountCopy == addHATEOASLinks(updated[id], BaseURL(r.host))
              IN  Outcome(updated, Response(StatusOK, AccountBody(accountCopy)))

withdraw(store, r) ==
    IF r.method # "POST" THEN Outcome(store, Response(StatusMethodNotAllowed, EmptyBody))
    ELSE IF Len(r.path) < 3 THEN Outcome(store, Response(StatusBadRequest, EmptyBody))
    ELSE LET accountID == <<r.path[3]>>
             transaction == Decode(r.body)
         IN
         IF ~Exists(store, accountID)
         THEN Outcome(store, Response(StatusNotFound, EmptyBody))
         ELSE IF Overdrawn(store[accountID[1]])
         THEN Outcome(store, Response(StatusForbidden,
                        ErrorBody("Withdrawal not allowed with negative balance")))
         ELSE IF transaction.err
         THEN Outcome(store, Response(StatusBadRequest, EmptyBody))
         ELSE IF NotPositive(transaction)
         THEN Outcome(store, Response(StatusBadRequest, ErrorBody("Amount must be positive")))
         ELSE LET id == accountID[1]
                  updated == [store EXCEPT ![id] = Debit(@, transaction.Amount)]
                  accountCopy == addHATEOASLinks(updated[id], BaseURL(r.host))
              IN  Outcome(updated, Response(StatusOK, AccountBody(accountCopy)))

\* strings.HasSuffix(path, "/" + name)
HasSuffix(path, name) == path[Len(path)] = name

\* The handler registered for "/accounts/" in main.
ServeAccounts(store, r) ==
    IF HasSuffix(r.path, "deposit") THEN deposit(store, r)
    ELSE IF HasSuffix(r.path, "withdraw") THEN withdraw(store, r)
    ELSE getAccount(store, r)

----------------------------------------------------------------------------
(* Sequential specification: requests are served one at a time *)

Event(op, req, resp) == [op |-> op, req |-> req, resp |-> resp]

\* A goroutine of net/http that serves no request yet.
IdleHandler == [pc |-> "idle", req |-> NoReq, tmp |-> 0, resp |-> NoResp]

Init ==
    /\ accounts = InitialAccounts
    /\ updates = 0
    /\ last = Event("init", NoReq, NoResp)
    /\ engine = "Idle"
    /\ fetched = NoAccount
    /\ catalog = [caps |-> {}, version |-> 0]
    /\ note = [version |-> 0, added |-> {}, removed |-> {}]
    /\ prev = NoAccount
    /\ resource = "acc-123"
    /\ stage = 0
    /\ handlers = [h \in 1..NumHandlers |-> IdleHandler]
    /\ applied = [id \in KnownIds |-> 0]
    /\ bypassed = FALSE

\* The scenario: a poll, a withdraw of 1250.75, a poll, a deposit of 100, a poll.
Scenario ==
    << [kind |-> "poll", amount |-> 0],
       [kind |-> "withdraw", amount |-> 125075],
       [kind |-> "poll", amount |-> 0],
       [kind |-> "deposit", amount |-> 10000],
       [kind |-> "poll", amount |-> 0] >>

\* The stage after event ev on the polled resource.
Advance(ev) ==
    IF stage >= 0 /\ stage < Len(Scenario) /\ Scenario[stage + 1] = ev
    THEN stage + 1 ELSE -1

\* The server handles request r.
Request(r) ==
    \E out \in {ServeAccounts(accounts, r)} :
    LET kind == r.path[Len(r.path)] IN
    /\ out.accounts # accounts => updates < MaxUpdates
    /\ accounts' = out.accounts
    /\ updates' = IF out.accounts # accounts THEN updates + 1 ELSE updates
    /\ last' = Event("request", r, out.resp)
    /\ stage' = IF resource \in KnownIds /\ out.accounts[resource] # accounts[resource]
                THEN Advance([kind |-> kind, amount |-> r.body.amount])
                ELSE stage
    /\ UNCHANGED engineVars
    /\ UNCHANGED concVars

Next ==
    \/ \E r \in Requests : Request(r)

Spec == Init /\ [][Next]_vars

----------------------------------------------------------------------------
(* The discovery engine polling the server *)

\* The host the resource client sends its requests to.
PollHost == "localhost:9001"

\* What a client following the published links sends: the link's method on the
\* link's path at the server's host, with no body or with one JSON object
\* whose amount is not negative.
LinkRequests ==
    {r \in Requests :
        /\ r.host = PollHost
        /\ Len(r.path) = (IF r.method = "GET" THEN 3 ELSE 4)
        /\ r.path[3] \in Ids
        /\ ~r.body.trailing
        /\ r.body.amount >= 0}

\* Resource Client: the GET request of fetch(resourceID).
FetchRequest(id) ==
    [method |-> "GET", path |-> <<"", "accounts", id>>, host |-> PollHost,
     body |-> MalformedBody]

\* Capability Mapper: one capability per entry of the action map.
MapCapabilities(links) ==
    {[name |-> rel, target |-> links[rel].Href,
      method |-> IF links[rel].Method = "" THEN "GET" ELSE links[rel].Method]
        : rel \in DOMAIN links}

\* Catalog equality: the same names, each with the same (target, method).
CatalogEqual(capsA, capsB) == capsA = capsB

Names(caps) == {c.name : c \in caps}

EmptyCatalog == [caps |-> {}, version |-> 0]

NoNote == [version |-> 0, added |-> {}, removed |-> {}]

InitPoll ==
    /\ accounts = InitialAccounts
    /\ updates = 0
    /\ last = Event("init", NoReq, NoResp)
    /\ engine = "Idle"
    /\ fetched = NoAccount
    /\ catalog = EmptyCatalog
    /\ note = NoNote
    /\ prev = NoAccount
    /\ resource \in Ids
    /\ stage = 0
    /\ handlers = [h \in 1..NumHandlers |-> IdleHandler]
    /\ applied = [id \in KnownIds |-> 0]
    /\ bypassed = FALSE

\* Idle: the timer fires.
Tick ==
    /\ engine = "Idle"
    /\ engine' = "Polling"
    /\ last' = Event("tick", NoReq, NoResp)
    /\ UNCHANGED <<accounts, updates, stage, fetched, catalog, note, prev, resource>>
    /\ UNCHANGED concVars

\* Polling: the server answers the fetch; NotFound leaves the catalog as it is.
Fetch ==
    /\ engine = "Polling"
    /\ LET r == FetchRequest(resource)
           out == ServeAccounts(accounts, r)
       IN  /\ last' = Event("fetch", r, out.resp)
           /\ accounts' = out.accounts
           /\ IF out.resp.status = StatusOK
              THEN /\ engine' = "Diffing"
                   /\ fetched' = out.resp.body.account
                   /\ stage' = Advance([kind |-> "poll", amount |-> 0])
              ELSE /\ engine' = "Idle"
                   /\ fetched' = fetched
                   /\ stage' = stage
    /\ UNCHANGED <<updates, catalog, note, prev, resource>>
    /\ UNCHANGED concVars

\* Polling: NetworkError; the catalog is left as it is.
FetchFail ==
    /\ engine = "Polling"
    /\ engine' = "Idle"
    /\ last' = Event("fetchfail", NoReq, NoResp)
    /\ UNCHANGED <<accounts, updates, stage, fetched, catalog, note, prev, resource>>
    /\ UNCHANGED concVars

\* Every poll counts as a change.
ChangedAlways(candidate, published) == TRUE

\* Diffing: does the candidate catalog differ from the published one?
Changed(candidate, published) == ~CatalogEqual(candidate, published)

\* Diffing: compare the candidate catalog with the published one.
Diff ==
    /\ engine = "Diffing"
    /\ engine' = IF Changed(MapCapabilities(fetched.Links), catalog.caps)
                 THEN "Publishing" ELSE "Stable"
    /\ prev' = fetched
    /\ last' = Event("diff", NoReq, NoResp)
    /\ UNCHANGED <<accounts, updates, stage, fetched, catalog, note, resource>>
    /\ UNCHANGED concVars

\* Stable: nothing to publish.
Settle ==
    /\ engine = "Stable"
    /\ engine' = "Idle"
    /\ last' = Event("settle", NoReq, NoResp)
    /\ UNCHANGED <<accounts, updates, stage, fetched, catalog, note, prev, resource>>
    /\ UNCHANGED concVars

\* Publishing: install the candidate under the next version and notify.
Publish ==
    /\ engine = "Publishing"
    /\ LET candidate == MapCapabilities(fetched.Links) IN
       /\ catalog' = [caps |-> candidate, version |-> catalog.version + 1]
       /\ note' = [version |-> catalog.version + 1,
                   added |-> Names(candidate) \ Names(catalog.caps),
                   removed |-> Names(catalog.caps) \ Names(candidate)]
    /\ engine' = "Idle"
    /\ last' = Event("publish", NoReq, NoResp)
    /\ UNCHANGED <<accounts, updates, stage, fetched, prev, resource>>
    /\ UNCHANGED concVars

NextPoll ==
    \/ \E r \in LinkRequests : Request(r)
    \/ Tick
    \/ Fetch
    \/ FetchFail
    \/ Diff
    \/ Settle
    \/ Publish

SpecPoll == InitPoll /\ [][NextPoll]_vars

----------------------------------------------------------------------------
(* Concurrent specification: net/http serves each request in a goroutine of *)
(* its own, and the handlers take no lock.  A handler's reads and writes of *)
(* Balance are separate steps: the check of line 157, the load and the      *)
(* store of "account.Balance += amount" (126, 175), the copy of 129, 178.   *)

Handlers == 1..NumHandlers

\* The POST requests of the concurrent handlers.
UpdateRequests == {r \in LinkRequests : r.method = "POST"}

IsWithdraw(r) == HasSuffix(r.path, "withdraw")

Finish(h, resp) ==
    handlers' = [handlers EXCEPT ![h].pc = "done", ![h].resp = resp]

\* The server accepts a connection and starts the handler (187-197).
Accept(h, r) ==
    /\ handlers[h].pc = "idle"
    /\ handlers' = [handlers EXCEPT ![h].pc = "lookup", ![h].req = r]
    /\ UNCHANGED <<accounts, applied, bypassed>>
    /\ UNCHANGED seqVars
    /\ UNCHANGED engineVars

\* Method, path and lookup (96-112, 138-154); withdraw reads Balance for its
\* check (157); then the body is decoded and the amount checked (114-124, 163-173).
Validate(h) ==
    LET r == handlers[h].req
        id == r.path[3]
        transaction == Decode(r.body)
    IN
    /\ handlers[h].pc = "lookup"
    /\ IF ~Exists(accounts, <<id>>)
       THEN Finish(h, Response(StatusNotFound, EmptyBody))
       ELSE IF IsWithdraw(r) /\ Overdrawn(accounts[id])
       THEN Finish(h, Response(StatusForbidden,
                      ErrorBody("Withdrawal not allowed with negative balance")))
       ELSE IF transaction.err
       THEN Finish(h, Response(StatusBadRequest, EmptyBody))
       ELSE IF NotPositive(transaction)
       THEN Finish(h, Response(StatusBadRequest, ErrorBody("Amount must be positive")))
       ELSE handlers' = [handlers EXCEPT ![h].pc = "load"]
    /\ UNCHANGED <<accounts, applied, bypassed>>
    /\ UNCHANGED seqVars
    /\ UNCHANGED engineVars

\* The load of account.Balance in "+=" / "-=".
Load(h) ==
    /\ handlers[h].pc = "load"
    /\ handlers' = [handlers EXCEPT ![h].pc = "store",
                                    ![h].tmp = accounts[handlers[h].req.path[3]].Balance]
    /\ UNCHANGED <<accounts, applied, bypassed>>
    /\ UNCHANGED seqVars
    /\ UNCHANGED engineVars

\* The store of account.Balance in "+=" / "-=".
Store(h) ==
    LET r == handlers[h].req
        id == r.path[3]
        delta == IF IsWithdraw(r) THEN 0 - r.body.amount ELSE r.body.amount
    IN
    /\ handlers[h].pc = "store"
    /\ accounts' = [accounts EXCEPT ![id].Balance = handlers[h].tmp + delta]
    /\ applied' = [applied EXCEPT ![id] = @ + delta]
    /\ bypassed' = (bypassed \/ (IsWithdraw(r) /\ accounts[id].Balance <= 0))
    /\ handlers' = [handlers EXCEPT ![h].pc = "copy"]
    /\ UNCHANGED seqVars
    /\ UNCHANGED engineVars

\* accountCopy := *account, the links, the response (129-134, 178-183).
Copy(h) ==
    LET r == handlers[h].req
        accountCopy == addHATEOASLinks(accounts[r.path[3]], BaseURL(r.host))
    IN
    /\ handlers[h].pc = "copy"
    /\ Finish(h, Response(StatusOK, AccountBody(accountCopy)))
    /\ UNCHANGED <<accounts, applied, bypassed>>
    /\ UNCHANGED seqVars
    /\ UNCHANGED engineVars

NextConc ==
    \/ \E h \in Handlers, r \in UpdateRequests : Accept(h, r)
    \/ \E h \in Handlers : Validate(h)
    \/ \E h \in Handlers : Load(h)
    \/ \E h \in Handlers : Store(h)
    \/ \E h \in Handlers : Copy(h)

SpecConc == Init /\ [][NextConc]_vars

----------------------------------------------------------------------------
(* Properties of the server, under Spec *)

\* The request of the step just taken is a POST of this kind on /accounts/{id}/kind.
PostOn(e, kind) ==
    /\ e.op = "request"
    /\ e.req.method = "POST"
    /\ Len(e.req.path) = 4
    /\ e.req.path[4] = kind

\* The request of the step just taken is a GET on /accounts/{id}.
GetOn(e) ==
    /\ e.op = "request"
    /\ e.req.method = "GET"
    /\ Len(e.req.path) = 3
    /\ e.req.path[3] \notin {"deposit", "withdraw"}

\* The body is one JSON object and nothing else.
WellFormed(body) == body.value = "object" /\ ~body.trailing

BadBody(body) == ~WellFormed(body) \/ body.amount <= 0

\* C1: every account representation the server returns carries the links self
\* and deposit, and carries withdraw exactly when the balance in that same
\* representation is > 0.
C1_LinksFollowBalance ==
    last.resp.body.kind = "account" =>
        LET a == last.resp.body.account IN
        /\ {"self", "deposit"} \subseteq DOMAIN a.Links
        /\ ("withdraw" \in DOMAIN a.Links) <=> (a.Balance > 0)

\* A withdraw has emptied an account, and the representation returned has
\* no withdraw link.
C1_Witness ==
    /\ PostOn(last, "withdraw")
    /\ last.resp.body.kind = "account"
    /\ last.resp.body.account.Balance = 0
    /\ DOMAIN last.resp.body.account.Links = {"self", "deposit"}

\* C2: a POST withdraw on a known account whose balance is <= 0 is answered
\* 403 whatever its body is, and changes no balance.
C2_WithdrawRefused ==
    [][ (/\ PostOn(last', "withdraw")
         /\ last'.req.path[3] \in KnownIds
         /\ accounts[last'.req.path[3]].Balance <= 0)
        => (/\ last'.resp.status = StatusForbidden
            /\ accounts' = accounts) ]_vars

\* A withdraw with a malformed body on an emptied account was answered 403.
C2_Witness ==
    /\ PostOn(last, "withdraw")
    /\ last.req.body.value = "invalid"
    /\ last.req.path[3] \in KnownIds
    /\ accounts[last.req.path[3]].Balance = 0
    /\ last.resp.status = StatusForbidden

\* C3: a deposit or withdraw whose body is malformed or whose amount is <= 0
\* changes no balance; deposit answers it 400, and withdraw answers it 400
\* when the balance is > 0.
C3_BadBodyRejected ==
    [][ ((PostOn(last', "deposit") \/ PostOn(last', "withdraw")) /\ BadBody(last'.req.body))
        => (/\ accounts' = accounts
            /\ last'.req.path[3] \in KnownIds =>
                 /\ PostOn(last', "deposit") => last'.resp.status = StatusBadRequest
                 /\ (PostOn(last', "withdraw") /\ accounts[last'.req.path[3]].Balance > 0)
                       => last'.resp.status = StatusBadRequest) ]_vars

\* C9: the representation of an account advertises withdraw exactly when a
\* well-formed withdraw of a positive amount, sent in the same state, is not
\* answered 403.
C9_LinkAgreesWithCheck ==
    \A id \in KnownIds : \A host \in Hosts : \A a \in {x \in Amounts : x > 0} :
        LET get == [method |-> "GET", path |-> <<"", "accounts", id>>, host |-> host,
                    body |-> MalformedBody]
            post == [method |-> "POST", path |-> <<"", "accounts", id, "withdraw">>,
                     host |-> host, body |-> Object(a)]
            rep == ServeAccounts(accounts, get).resp
        IN  /\ rep.status = StatusOK
            /\ ("withdraw" \in DOMAIN rep.body.account.Links)
                 <=> (ServeAccounts(accounts, post).resp.status # StatusForbidden)

\* A withdraw has brought a balance to exactly zero.
C9_Witness ==
    /\ PostOn(last, "withdraw")
    /\ last.resp.status = StatusOK
    /\ accounts[last.req.path[3]].Balance = 0

\* C4: on a known account, a deposit of an amount > 0, and a withdraw of an
\* amount > 0 while the balance is > 0, are answered 200 with the updated
\* representation: the stored balance of that account moves by exactly
\* +amount or -amount (below zero if the amount exceeds the balance), the
\* balance returned is the new stored balance, and no other account changes.
C4_UpdateExact ==
    [][ /\ (/\ PostOn(last', "deposit")
            /\ last'.req.path[3] \in KnownIds
            /\ last'.req.body.value = "object" /\ last'.req.body.amount > 0)
           => LET id == last'.req.path[3] IN
              /\ last'.resp.status = StatusOK
              /\ accounts' = [accounts EXCEPT ![id].Balance = @ + last'.req.body.amount]
              /\ last'.resp.body.kind = "account"
              /\ last'.resp.body.account.AccountID = id
              /\ last'.resp.body.account.Balance = accounts'[id].Balance
        /\ (/\ PostOn(last', "withdraw")
            /\ last'.req.path[3] \in KnownIds
            /\ accounts[last'.req.path[3]].Balance > 0
            /\ last'.req.body.value = "object" /\ last'.req.body.amount > 0)
           => LET id == last'.req.path[3] IN
              /\ last'.resp.status = StatusOK
              /\ accounts' = [accounts EXCEPT ![id].Balance = @ - last'.req.body.amount]
              /\ last'.resp.body.kind = "account"
              /\ last'.resp.body.account.AccountID = id
              /\ last'.resp.body.account.Balance = accounts'[id].Balance ]_vars

\* A withdraw of more than the balance was accepted and left a negative balance.
C4_Witness ==
    /\ PostOn(last, "withdraw")
    /\ last.resp.status = StatusOK
    /\ last.resp.body.account.Balance < 0
    /\ accounts[last.req.path[3]].Balance = last.resp.body.account.Balance

\* C5: GET /accounts/{id} is answered 200 with the representation of the
\* account stored under id when id is known and 404 when it is not; deposit
\* and withdraw on an unknown id are answered 404; a 404 changes no account.
C5_NotFoundIffUnknown ==
    [][ /\ (last'.op = "request" /\ last'.req.method = "GET" /\ Len(last'.req.path) = 3)
           => LET id == last'.req.path[3] IN
              IF id \in KnownIds
              THEN /\ last'.resp.status = StatusOK
                   /\ last'.resp.body.kind = "account"
                   /\ last'.resp.body.account
                        = addHATEOASLinks(accounts[id], BaseURL(last'.req.host))
              ELSE last'.resp.status = StatusNotFound
        /\ ((PostOn(last', "deposit") \/ PostOn(last', "withdraw"))
               /\ last'.req.path[3] \notin KnownIds)
           => last'.resp.status = StatusNotFound
        /\ (last'.op = "request" /\ last'.resp.status = StatusNotFound)
           => accounts' = accounts ]_vars

\* C8: a GET changes no stored account, neither balance, holder, currency nor
\* the stored Links: the links are attached to the copy that is returned.
C8_GetLeavesStore ==
    [][ (last'.op = "request" /\ last'.req.method = "GET")
        => /\ accounts' = accounts
           /\ last'.resp.status = StatusOK
                => /\ last'.resp.body.account.Links # NilLinks
                   /\ \A id \in KnownIds : accounts'[id].Links = NilLinks ]_vars

\* After an update, a GET returned an account with its links while the stored
\* account has none.
C8_Witness ==
    /\ GetOn(last)
    /\ last.resp.status = StatusOK
    /\ updates > 0
    /\ "self" \in DOMAIN last.resp.body.account.Links
    /\ accounts[last.req.path[3]].Links = NilLinks
    /\ accounts[last.req.path[3]].Balance = last.resp.body.account.Balance

----------------------------------------------------------------------------
(* Properties of the discovery engine polling the server, under SpecPoll *)

AllLinks == {"self", "deposit", "withdraw"}

\* The engine is between two polls: the poll before is complete.
BetweenPolls == engine \in {"Idle", "Polling"}

\* C6: on the account that starts at 1250.75, the first poll sees
\* {self, deposit, withdraw} and publishes it as version 1; after a withdraw
\* of 1250.75 the balance is 0 and the next poll sees {self, deposit} and
\* publishes version 2 with removed = {withdraw}; after a deposit of 100 the
\* balance is 100 and the next poll publishes version 3 with
\* added = {withdraw}.
C6_Scenario ==
    resource = "acc-123" =>
        /\ stage \in {1, 3, 5} => engine # "Stable"
        /\ stage = 1 =>
              /\ accounts[resource].Balance = 125075
              /\ engine = "Diffing" => DOMAIN fetched.Links = AllLinks
        /\ (stage \in {1, 2} /\ BetweenPolls) =>
              /\ catalog.version = 1
              /\ Names(catalog.caps) = AllLinks
              /\ note = [version |-> 1, added |-> AllLinks, removed |-> {}]
        /\ stage \in {2, 3} => accounts[resource].Balance = 0
        /\ (stage = 3 /\ engine = "Diffing") => DOMAIN fetched.Links = {"self", "deposit"}
        /\ (stage \in {3, 4} /\ BetweenPolls) =>
              /\ catalog.version = 2
              /\ Names(catalog.caps) = {"self", "deposit"}
              /\ note = [version |-> 2, added |-> {}, removed |-> {"withdraw"}]
        /\ stage \in {4, 5} => accounts[resource].Balance = 10000
        /\ (stage = 5 /\ engine = "Diffing") => DOMAIN fetched.Links = AllLinks
        /\ (stage = 5 /\ BetweenPolls) =>
              /\ catalog.version = 3
              /\ Names(catalog.caps) = AllLinks
              /\ note = [version |-> 3, added |-> {"withdraw"}, removed |-> {}]

\* The scenario has run to its end: the third poll has published version 3.
C6_Witness ==
    /\ resource = "acc-123"
    /\ stage = 5
    /\ engine = "Idle"
    /\ catalog.version = 3
    /\ note.added = {"withdraw"}

\* C7: the engine publishes a notification and advances the version exactly
\* when the polled link set differs from the published one; a poll whose
\* action map is that of the poll before publishes nothing and leaves the
\* version as it is, whatever requests the server handles in between.  With
\* this server the link set differs exactly on the first poll and when the
\* polled balance has crossed zero since the poll before.
C7_PublishIffChanged ==
    [][ /\ (engine = "Diffing" /\ engine' # "Diffing")
           => /\ (engine' = "Publishing") <=> (MapCapabilities(fetched.Links) # catalog.caps)
              /\ (engine' = "Stable") <=> (MapCapabilities(fetched.Links) = catalog.caps)
              /\ fetched.Links = prev.Links => engine' = "Stable"
              /\ (engine' = "Publishing")
                   <=> (\/ prev = NoAccount
                        \/ (fetched.Balance > 0) # (prev.Balance > 0))
        /\ (catalog' # catalog \/ note' # note) <=> (engine = "Publishing" /\ engine' = "Idle")
        /\ (engine = "Publishing" /\ engine' = "Idle")
           => /\ catalog'.version = catalog.version + 1
              /\ note'.version = catalog'.version
              /\ catalog'.caps = MapCapabilities(fetched.Links)
              /\ catalog'.caps # catalog.caps ]_vars

\* After a balance update, a poll saw the action map of the poll before and
\* settled without publishing.
C7_Witness ==
    /\ engine = "Stable"
    /\ last.op = "diff"
    /\ updates > 0
    /\ fetched.Links = prev.Links
    /\ fetched.Balance # InitialAccounts[resource].Balance
    /\ catalog.version = 1
    /\ note.version = 1

----------------------------------------------------------------------------
(* Properties of the concurrent handlers, under SpecConc *)

\* C10: when handlers run concurrently no update is lost and no check is
\* bypassed: once every handler is done, each balance is the initial balance
\* plus the accepted deposits minus the accepted withdraws, and every
\* accepted withdraw was subtracted from a balance that was > 0.
C10_NoLostUpdate ==
    /\ (\A h \in Handlers : handlers[h].pc \in {"idle", "done"})
         => \A id \in KnownIds :
              accounts[id].Balance = InitialAccounts[id].Balance + applied[id]
    /\ ~bypassed

====
